---- MODULE Spec2Model ----
(***************************************************************************)
(* Model of monitor-pets.js: one run of the script loads pets-state.json,  *)
(* fetches the monitored source, diffs it against the loaded state, posts  *)
(* a Discord embed when something changed, then saves and commits the new  *)
(* state.                                                                  *)
(*                                                                         *)
(* JavaScript values are records told apart by their fields, as objects    *)
(* are in the script: a pet is a record with an optional id and an         *)
(* optional name, an id value is [str |-> s], [num |-> n] or [arr |-> a],  *)
(* JSON null is [null |-> TRUE], an absent property is an absent field.    *)
(***************************************************************************)
EXTENDS Integers, Sequences, FiniteSets, TLC

\* Longest array the data API serves.
MaxLen == 2
\* Number of runs of the script that are started.
MaxRuns == 2
\* Size of the one long array the data API serves.
MaxLitter == 11

Null == [null |-> TRUE]

IsNull(v) == "null" \in DOMAIN v

\* ---------------------------------------------------------------------
\* The fetched data: pets, ids and page texts.

PetFofo  == [id |-> [str |-> "pet1"], name |-> "Fofo"]
PetRex   == [id |-> [str |-> "pet1"], name |-> "Rex"]
PetZero  == [id |-> [num |-> 0], name |-> "Bicho"]
PetArrId == [id |-> [arr |-> <<>>]]

Items == {PetFofo, PetRex, PetZero, PetArrId, Null}

RECURSIVE SeqsUpTo(_, _)
SeqsUpTo(S, n) ==
  IF n = 0 THEN {<<>>}
  ELSE LET shorter == SeqsUpTo(S, n - 1)
       IN shorter \cup {Append(s, x) : s \in {t \in shorter : Len(t) = n - 1}, x \in S}

\* An array with more pets than an embed field lists.
Litter == [i \in 1..MaxLitter |-> [id |-> [num |-> i], name |-> "Filhote " \o ToString(i)]]

Arrays == SeqsUpTo(Items, MaxLen) \cup {Litter}

\* A JSON body that is not an array.
NotAnArray == [error |-> "not found"]

RECURSIVE Repeat(_, _)
Repeat(s, n) ==
  IF n = 0 THEN "" ELSE IF n = 1 THEN s
  ELSE Repeat(s, n \div 2) \o Repeat(s, n - n \div 2)

\* A page longer than the excerpt of line 183, and an empty body.
LongPage == "<html>" \o Repeat("joiner row ", 80) \o "</html>"
EmptyPage == ""

Texts == {"<html>joiner A</html>", "<html>joiner B</html>", LongPage, EmptyPage}

\* ---------------------------------------------------------------------
\* JavaScript coercions used by the script.

\* ToBoolean of an id value: the empty string and zero are falsy, an
\* array is an object and truthy.
ToBoolean(v) ==
  IF "str" \in DOMAIN v THEN v.str # ""
  ELSE IF "num" \in DOMAIN v THEN v.num # 0
  ELSE TRUE

\* obj.field read as a condition: an absent property is undefined.
Has(obj, field) == ~IsNull(obj) /\ field \in DOMAIN obj

RECURSIVE Join(_, _)
Join(strs, sep) ==
  IF Len(strs) = 0 THEN ""
  ELSE IF Len(strs) = 1 THEN strs[1]
  ELSE strs[1] \o sep \o Join(Tail(strs), sep)

\* String(v) of an id value: a string is itself, a number its decimal
\* form, an array the comma-joined String of its elements.
RECURSIVE String(_)
String(v) ==
  IF "str" \in DOMAIN v THEN v.str
  ELSE IF "num" \in DOMAIN v THEN ToString(v.num)
  ELSE Join([i \in 1..Len(v.arr) |-> String(v.arr[i])], ",")

RECURSIVE Pad(_)
Pad(n) == IF n = 0 THEN "" ELSE " " \o Pad(n - 1)

NewLine(gap, level) == IF gap = 0 THEN "" ELSE "\n" \o Pad(gap * level)

Members(strs, open, close, gap, level) ==
  IF Len(strs) = 0 THEN open \o close
  ELSE open \o NewLine(gap, level + 1)
            \o Join(strs, "," \o NewLine(gap, level + 1))
            \o NewLine(gap, level) \o close

\* A string as a JSON string literal: quotes and backslashes are escaped.
Escape(s) ==
  LET RECURSIVE esc(_, _)
      esc(i, j) ==
        IF i > j THEN ""
        ELSE IF i = j
        THEN LET c == SubSeq(s, i, i)
             IN IF c = "\"" THEN "\\\"" ELSE IF c = "\\" THEN "\\\\" ELSE c
        ELSE LET m == (i + j) \div 2
             IN esc(i, m) \o esc(m + 1, j)
  IN esc(1, Len(s))

Quoted(s) == "\"" \o Escape(s) \o "\""

Colon(gap) == IF gap = 0 THEN ":" ELSE ": "

\* JSON text of a value, with `gap` spaces of indentation per level (0: on
\* one line).
RECURSIVE Serialize(_, _, _)
Serialize(v, gap, level) ==
  LET member(name, text) == Quoted(name) \o Colon(gap) \o text
      sub(w) == Serialize(w, gap, level + 1)
  IN IF IsNull(v) THEN "null"
     ELSE IF "str" \in DOMAIN v THEN Quoted(v.str)
     ELSE IF "num" \in DOMAIN v THEN ToString(v.num)
     ELSE IF "arr" \in DOMAIN v
       THEN Members([i \in 1..Len(v.arr) |-> sub(v.arr[i])], "[", "]", gap, level)
     ELSE IF "pets" \in DOMAIN v
       THEN Members(<<member("pets",
                Members([i \in 1..Len(v.pets) |-> Serialize(v.pets[i], gap, level + 2)],
                        "[", "]", gap, level + 1))>>, "{", "}", gap, level)
     ELSE IF "hash" \in DOMAIN v
       THEN Members(<<member("hash", Quoted(v.hash))>>, "{", "}", gap, level)
     ELSE IF "key" \in DOMAIN v
       THEN Members(<<member("key", Quoted(v.key)), member("object", sub(v.object))>>,
                    "{", "}", gap, level)
     ELSE Members((IF "id" \in DOMAIN v THEN <<member("id", sub(v.id))>> ELSE <<>>)
                  \o (IF "name" \in DOMAIN v
                      THEN <<member("name", Quoted(v.name))>> ELSE <<>>),
                  "{", "}", gap, level)

\* JSON.stringify(value) and JSON.stringify(value, null, 2).
JSONstringify(v) == Serialize(v, 0, 0)
JSONpretty(v) == Serialize(v, 2, 0)

\* ---------------------------------------------------------------------
\* The functions of the script.

\* uniqBy keeping the last item of each key instead of the first.
uniqByLast(arr, fn) ==
  LET RECURSIVE filter(_)
      filter(i) ==
        IF i > Len(arr) THEN <<>>
        ELSE IF \E j \in (i + 1)..Len(arr) : fn[arr[j]] = fn[arr[i]] THEN filter(i + 1)
        ELSE <<arr[i]>> \o filter(i + 1)
  IN filter(1)

uniqBy(arr, fn) ==
  LET RECURSIVE filter(_, _)
      filter(i, seen) ==
        IF i > Len(arr) THEN <<>>
        ELSE LET k == fn[arr[i]]
             IN IF k \in seen THEN filter(i + 1, seen)
                ELSE <<arr[i]>> \o filter(i + 1, seen \cup {k})
  IN filter(1, {})

normalize(item) ==
  IF ~IsNull(item) /\ Has(item, "id") /\ (ToBoolean(item.id) \/ item.id = [num |-> 0])
  THEN [key |-> String(item.id), object |-> item]
  ELSE [key |-> JSONstringify(item), object |-> item]

KeyOf(x) == x.key

\* current = uniqBy(json.map(normalize), x => x.key)
Current(json) ==
  LET mapped == [i \in 1..Len(json) |-> normalize(json[i])]
  IN uniqBy(mapped, [x \in {mapped[i] : i \in 1..Len(mapped)} |-> KeyOf(x)])

\* Map.set on a Map kept as a sequence of <<key, value>> in insertion order.
MapSet(m, k, v) ==
  IF \E i \in 1..Len(m) : m[i][1] = k
  THEN [i \in 1..Len(m) |-> IF m[i][1] = k THEN <<k, v>> ELSE m[i]]
  ELSE Append(m, <<k, v>>)

MapHas(m, k) == \E i \in 1..Len(m) : m[i][1] = k

\* The key the script derives for an entry of previous.pets.
PrevKey(p) ==
  IF Has(p, "key") /\ p.key # "" THEN p.key
  ELSE IF Has(p, "id") /\ ToBoolean(p.id) THEN String(p.id)
  ELSE JSONstringify(p)

PrevValue(p) == IF Has(p, "object") /\ ~IsNull(p.object) THEN p.object ELSE p

PrevMap(previous) ==
  LET RECURSIVE fill(_, _)
      fill(i, m) ==
        IF i > Len(previous.pets) THEN m
        ELSE fill(i + 1, MapSet(m, PrevKey(previous.pets[i]), PrevValue(previous.pets[i])))
  IN IF ~IsNull(previous) /\ "pets" \in DOMAIN previous THEN fill(1, <<>>) ELSE <<>>

Added(prevMap, current) ==
  LET keep(c) == ~MapHas(prevMap, c.key)
      kept == SelectSeq(current, keep)
  IN [i \in 1..Len(kept) |-> kept[i].object]

Removed(prevMap, current) ==
  LET keep(e) == ~\E i \in 1..Len(current) : current[i].key = e[1]
      kept == SelectSeq(prevMap, keep)
  IN [i \in 1..Len(kept) |-> kept[i][2]]

\* String literals are written in ASCII: "--" is the dash placeholder and
\* "* " the bullet of the script.
\* The guard of line 141 with the test of previous inverted, and with it
\* left out.
NoChangeInverted(added, removed, previous) ==
  Len(added) = 0 /\ Len(removed) = 0 /\ IsNull(previous)

NoChangeWithoutPrevious(added, removed, previous) ==
  Len(added) = 0 /\ Len(removed) = 0

\* The guard of line 141 never taken.
NoChangeNever(added, removed, previous) == FALSE

\* Line 141: nothing was added or removed and a previous state was loaded.
NoChange(added, removed, previous) ==
  Len(added) = 0 /\ Len(removed) = 0 /\ ~IsNull(previous)

ShortListLimit == 10

\* A shortList whose suffix counts every entry, listed or not.
shortListCountsAll(items, limit) ==
  IF Len(items) = 0 THEN "--"
  ELSE Join([i \in 1..(IF Len(items) < limit THEN Len(items) ELSE limit) |->
               "* " \o items[i]], "\n")
       \o (IF Len(items) > limit
           THEN "\n...(+" \o ToString(Len(items)) \o ")" ELSE "")

\* Lines 83-86.
shortList(items, limit) ==
  IF Len(items) = 0 THEN "--"
  ELSE Join([i \in 1..(IF Len(items) < limit THEN Len(items) ELSE limit) |->
               "* " \o items[i]], "\n")
       \o (IF Len(items) > limit
           THEN "\n...(+" \o ToString(Len(items) - limit) \o ")" ELSE "")

\* it.name || JSON.stringify(it)
Display(it) == IF Has(it, "name") /\ it.name # "" THEN it.name ELSE JSONstringify(it)

ColorAdded == 3066993
ColorRemoved == 15105570
ColorInitialPage == 3447003

\* An embed whose sections are labelled with the number of entries listed
\* in them.
PetsEmbedCountsListed(previous, url, added, removed) ==
  LET listed(items) == IF Len(items) < ShortListLimit THEN Len(items) ELSE ShortListLimit
  IN
  [title |-> IF ~IsNull(previous) THEN "Atualizacao de pets" ELSE "Estado inicial dos pets",
   description |-> url \o (IF Len(added) = 0 /\ Len(removed) = 0
                           THEN "\nConteudo alterado (diferenca nao estruturada)." ELSE ""),
   color |-> IF Len(added) # 0 THEN ColorAdded ELSE ColorRemoved,
   fields |->
     (IF Len(added) # 0
      THEN <<[name |-> "Novos (" \o ToString(listed(added)) \o ")",
              value |-> shortList([i \in 1..Len(added) |-> Display(added[i])],
                                  ShortListLimit)]>>
      ELSE <<>>)
     \o (IF Len(removed) # 0
         THEN <<[name |-> "Removidos (" \o ToString(listed(removed)) \o ")",
                 value |-> shortList([i \in 1..Len(removed) |-> Display(removed[i])],
                                     ShortListLimit)]>>
         ELSE <<>>)]

\* Lines 147-157: the embed of the structured branch.
PetsEmbed(previous, url, added, removed) ==
  [title |-> IF ~IsNull(previous) THEN "Atualizacao de pets" ELSE "Estado inicial dos pets",
   description |-> url \o (IF Len(added) = 0 /\ Len(removed) = 0
                           THEN "\nConteudo alterado (diferenca nao estruturada)." ELSE ""),
   color |-> IF Len(added) # 0 THEN ColorAdded ELSE ColorRemoved,
   fields |->
     (IF Len(added) # 0
      THEN <<[name |-> "Novos (" \o ToString(Len(added)) \o ")",
              value |-> shortList([i \in 1..Len(added) |-> Display(added[i])],
                                  ShortListLimit)]>>
      ELSE <<>>)
     \o (IF Len(removed) # 0
         THEN <<[name |-> "Removidos (" \o ToString(Len(removed)) \o ")",
                 value |-> shortList([i \in 1..Len(removed) |-> Display(removed[i])],
                                     ShortListLimit)]>>
         ELSE <<>>)]

\* { pets: current.map(c => ({ key: c.key, object: c.object })) }
\* The updated_at field of the saved state and the timestamp of the embed
\* are written and never read back by the script; they are left out.
NewState(current) ==
  [pets |-> [i \in 1..Len(current) |-> [key |-> current[i].key, object |-> current[i].object]]]

\* createHash('sha256').update(text).digest('hex'), kept symbolic: distinct
\* texts have distinct digests.
Sha256(text) == "sha256(" \o text \o ")"

\* ---------------------------------------------------------------------
\* The state file and the state of a run.

Procs == {1, 2}
Main == 1

Unset == ""
Urls(u) == {Unset, u}
\* String.prototype.trim for spaces, tabs and line ends.
Trim(s) ==
  LET blank(i) == SubSeq(s, i, i) \in {" ", "\t", "\n", "\r"}
      solid == {i \in 1..Len(s) : ~blank(i)}
  IN IF solid = {} THEN ""
     ELSE SubSeq(s, CHOOSE i \in solid : \A j \in solid : i <= j,
                    CHOOSE i \in solid : \A j \in solid : j <= i)

\* A URL variable of process.env: undefined or empty, blank, the URL, or
\* the URL with blanks around it.
Padded(u) == {Unset, "  ", u, " " \o u \o "\n"}

ProcessEnvs == [DISCORD_WEBHOOK_URL : Urls("https://discord/webhook"),
                DATA_API_URL : Padded("https://api/pets"),
                TARGET_URL : Padded("https://joiner/page")]

\* Lines 23-25: the constants the script derives from process.env.
Envs == {[webhook |-> pe.DISCORD_WEBHOOK_URL,
          dataApiUrl |-> Trim(pe.DATA_API_URL),
          targetUrl |-> Trim(pe.TARGET_URL)] : pe \in ProcessEnvs}

\* What the monitored URL of a configuration can serve.
ServedBy(e) ==
  IF e.dataApiUrl # Unset
  THEN {[json |-> [arr |-> a]] : a \in Arrays} \cup {[json |-> NotAnArray]}
  ELSE {[text |-> t] : t \in Texts}

NoFile == [exists |-> FALSE, raw |-> ""]
Truncated == [exists |-> TRUE, raw |-> ""]

\* Every state the script can write within the bounds.
Writable == {NewState(Current(a)) : a \in Arrays} \cup {[hash |-> Sha256(t)] : t \in Texts}

\* JSON.stringify(state, null, 2), tabulated.
TextOf == [w \in Writable |-> JSONpretty(w)]

FileWith(state) == [exists |-> TRUE, raw |-> TextOf[state]]

\* JSON.parse on the texts the script writes; any other text is a syntax
\* error.
ParseTable == [raw \in {TextOf[w] : w \in Writable} |->
                 CHOOSE w \in Writable : TextOf[w] = raw]

loadState(file) ==
  IF file.exists /\ file.raw \in DOMAIN ParseTable THEN ParseTable[file.raw] ELSE Null

\* Lines 121-162: the current collection, the diff against previous, the
\* embed to post and the state to save.
Plan(previous, arr, url) ==
  LET current == Current(arr)
      prevMap == PrevMap(previous)
      added == Added(prevMap, current)
      removed == Removed(prevMap, current)
  IN [current |-> current,
      added |-> added,
      removed |-> removed,
      unchanged |-> NoChange(added, removed, previous),
      embed |-> PetsEmbed(previous, url, added, removed),
      newState |-> NewState(current)]

\* Plan, tabulated over what loadState returns, what the API serves and
\* the DATA_API_URL of the configurations.
PlanOf == [previous \in Writable \cup {Null}, arr \in Arrays,
           url \in {e.dataApiUrl : e \in Envs} \ {Unset} |-> Plan(previous, arr, url)]

VARIABLES
  env,        \* process.env: DISCORD_WEBHOOK_URL, DATA_API_URL, TARGET_URL
  source,     \* what the monitored URL serves: [json |-> value] or [text |-> body]
  stateFile,  \* pets-state.json in the working tree
  durable,    \* pets-state.json at origin
  runs,       \* number of runs started
  run,        \* per process: the position and the locals of its run
  undelivered, \* history: the latest embed posted was refused by the webhook
  displayed,  \* the display strings handed to shortList
  rendered    \* what shortList returned for them ("": not called yet)

vars == <<env, source, stateFile, durable, runs, run, undelivered, displayed, rendered>>

NoEmbed == [title |-> "", description |-> "", color |-> 0, fields |-> <<>>]

\* The locals of main, with what the run has called, logged and exited
\* with, and whether it started while another run was under way.
Idle == [pc |-> "idle", mode |-> "", previous |-> Null, loaded |-> NoFile,
         json |-> Null, text |-> "", current |-> <<>>, added |-> <<>>, removed |-> <<>>,
         hash |-> "", embed |-> NoEmbed, newState |-> Null, delivered |-> FALSE,
         commit |-> "", calls |-> <<>>, stderr |-> "", exit |-> -1,
         overlapped |-> FALSE]

Running(p) == run[p].pc \notin {"idle", "exited"}

Exit(r, code) == [r EXCEPT !.pc = "exited", !.exit = code]

\* console.error followed by process.exit(code).
Fail(r, code, msg) == [Exit(r, code) EXCEPT !.stderr = msg]

\* Lines 198-201: the catch of main logs the error it caught.
Caught(msg) == "Erro no monitor-pets: " \o msg

\* The messages of the errors thrown: by fetchJson and fetchText, by the
\* array test of line 115, by sendDiscord and by fs.writeFileSync.
FetchError(mode) == IF mode = "structured" THEN "Erro ao buscar JSON" ELSE "Erro ao buscar URL"
NotArrayError == "DATA_API_URL retornou JSON, mas nao e um array"
WebhookError == "Falha ao enviar webhook"
WriteError == "EACCES: permission denied, open 'pets-state.json'"

Init ==
  /\ env \in Envs
  /\ source \in ServedBy(env)
  /\ stateFile = NoFile
  /\ durable = NoFile
  /\ runs = 0
  /\ run = [p \in Procs |-> Idle]
  /\ undelivered = FALSE
  /\ displayed = <<>>
  /\ rendered = ""

\* A launch that tests TARGET_URL before DATA_API_URL.
LaunchPrefersPage(p, e) ==
  /\ ~Running(p)
  /\ env' = e
  /\ LET previous == loadState(stateFile)
         r == [Idle EXCEPT !.previous = previous, !.loaded = stateFile,
                           !.calls = <<"loadState">>,
                           !.overlapped = \E q \in Procs \ {p} : Running(q)]
     IN run' = [run EXCEPT ![p] =
          IF e.webhook = Unset THEN Fail(Idle, 1, "ERRO: DISCORD_WEBHOOK_URL nao esta definido.")
          ELSE IF e.targetUrl # Unset
            THEN [r EXCEPT !.pc = "fetchText", !.mode = "opaque",
                           !.calls = Append(@, "fetchText")]
          ELSE IF e.dataApiUrl # Unset
            THEN [r EXCEPT !.pc = "fetchJson", !.mode = "structured",
                           !.calls = Append(@, "fetchJson")]
          ELSE Fail(r, 1, "Nenhuma URL fornecida (TARGET_URL ou DATA_API_URL).")]
  /\ UNCHANGED <<source, stateFile, durable, undelivered, displayed, rendered>>

\* Lines 23-33 and 108-112, 168, 194-197: the script starts under
\* configuration e, loads the state file and requests the monitored URL.
Launch(p, e) ==
  /\ ~Running(p)
  /\ env' = e
  /\ LET previous == loadState(stateFile)
         r == [Idle EXCEPT !.previous = previous, !.loaded = stateFile,
                           !.calls = <<"loadState">>,
                           !.overlapped = \E q \in Procs \ {p} : Running(q)]
     IN run' = [run EXCEPT ![p] =
          IF e.webhook = Unset THEN Fail(Idle, 1, "ERRO: DISCORD_WEBHOOK_URL nao esta definido.")
          ELSE IF e.dataApiUrl # Unset
            THEN [r EXCEPT !.pc = "fetchJson", !.mode = "structured",
                           !.calls = Append(@, "fetchJson")]
          ELSE IF e.targetUrl # Unset
            THEN [r EXCEPT !.pc = "fetchText", !.mode = "opaque",
                           !.calls = Append(@, "fetchText")]
          ELSE Fail(r, 1, "Nenhuma URL fornecida (TARGET_URL ou DATA_API_URL).")]
  /\ UNCHANGED <<source, stateFile, durable, undelivered, displayed, rendered>>

\* A scheduled run: runs do not overlap.
Start(p) ==
  /\ runs < MaxRuns
  /\ \A q \in Procs : ~Running(q)
  /\ runs' = runs + 1
  /\ \E e \in Envs : Launch(p, e)

\* A failed fetch taken for an empty collection that is saved.
FetchFailsSavesEmpty(p) ==
  /\ run[p].pc \in {"fetchJson", "fetchText"}
  /\ stateFile' = [exists |-> TRUE, raw |-> TextOf[NewState(<<>>)]]
  /\ run' = [run EXCEPT ![p] = Fail(@, 2, Caught(FetchError(@.mode)))]
  /\ UNCHANGED <<env, source, durable, runs, undelivered, displayed, rendered>>

\* fetchJson / fetchText throws: the response is not ok (a body that is
\* not JSON ends the run the same way with the parser's message).
FetchFails(p) ==
  /\ run[p].pc \in {"fetchJson", "fetchText"}
  /\ run' = [run EXCEPT ![p] = Fail(@, 2, Caught(FetchError(@.mode)))]
  /\ UNCHANGED <<env, source, stateFile, durable, runs, undelivered, displayed, rendered>>

\* The structured branch saving the new state before it posts the embed.
JsonArrivesSavesFirst(p, s) ==
  /\ run[p].pc = "fetchJson"
  /\ "json" \in DOMAIN s
  /\ source' = s
  /\ LET json == s.json
         previous == run[p].previous
         d == PlanOf[previous, IF "arr" \in DOMAIN json THEN json.arr ELSE <<>>,
                     env.dataApiUrl]
         r == [run[p] EXCEPT !.json = json, !.current = d.current,
                             !.added = d.added, !.removed = d.removed]
     IN IF "arr" \notin DOMAIN json
        THEN /\ run' = [run EXCEPT ![p] = Fail([@ EXCEPT !.json = json], 2, Caught(NotArrayError))]
             /\ UNCHANGED stateFile
        ELSE IF d.unchanged
        THEN /\ run' = [run EXCEPT ![p] = Exit(r, 0)]
             /\ UNCHANGED stateFile
        ELSE /\ stateFile' = [exists |-> TRUE, raw |-> TextOf[d.newState]]
             /\ run' = [run EXCEPT ![p] =
                   [r EXCEPT !.pc = "sendDiscord",
                             !.embed = d.embed,
                             !.newState = d.newState,
                             !.calls = @ \o <<"saveState", "sendDiscord">>]]
  /\ UNCHANGED <<env, durable, runs, undelivered, displayed, rendered>>

\* Lines 114-159: the URL serves s and its JSON arrives; normalise, diff,
\* and post the embed.
JsonArrives(p, s) ==
  /\ run[p].pc = "fetchJson"
  /\ "json" \in DOMAIN s
  /\ source' = s
  /\ LET json == s.json
         previous == run[p].previous
     IN run' = [run EXCEPT ![p] =
          IF "arr" \notin DOMAIN json THEN Fail([@ EXCEPT !.json = json], 2, Caught(NotArrayError))
          ELSE LET d == PlanOf[previous, json.arr, env.dataApiUrl]
                   r == [@ EXCEPT !.json = json, !.current = d.current,
                                  !.added = d.added, !.removed = d.removed]
               IN IF d.unchanged
                  THEN Exit(r, 0)
                  ELSE [r EXCEPT !.pc = "sendDiscord",
                                 !.embed = d.embed,
                                 !.newState = d.newState,
                                 !.calls = Append(@, "sendDiscord")]]
  /\ UNCHANGED <<env, stateFile, durable, runs, undelivered, displayed, rendered>>

\* The monitored URL serves anything by the time it is fetched.
FetchJsonDone(p) ==
  /\ run[p].pc = "fetchJson"
  /\ \E s \in ServedBy(env) : JsonArrives(p, s)

\* A slice that keeps the whole text.
SliceWhole(text, n) == text

\* text.slice(0, n)
Slice(text, n) == SubSeq(text, 1, IF Len(text) < n THEN Len(text) ELSE n)

ExcerptLen == 800

PageEmbed(previous, url, hash, text) ==
  [title |-> IF ~IsNull(previous) THEN "Mudanca detectada na pagina"
             ELSE "Estado inicial (pagina salvo)",
   description |-> url,
   color |-> IF ~IsNull(previous) THEN ColorRemoved ELSE ColorInitialPage,
   fields |-> <<[name |-> "Hash (SHA-256)", value |-> hash],
                [name |-> "Primeiros 800 chars",
                 value |-> IF Slice(text, ExcerptLen) # "" THEN Slice(text, ExcerptLen)
                           ELSE "--"]>>]

\* Lines 170-187: the URL serves s and the page arrives; hash, compare,
\* and post the embed.
TextArrives(p, s) ==
  /\ run[p].pc = "fetchText"
  /\ "text" \in DOMAIN s
  /\ source' = s
  /\ LET text == s.text
         hash == Sha256(text)
         previous == run[p].previous
         r == [run[p] EXCEPT !.text = text, !.hash = hash]
     IN run' = [run EXCEPT ![p] =
          IF ~IsNull(previous) /\ Has(previous, "hash") /\ previous.hash = hash
          THEN Exit(r, 0)
          ELSE [r EXCEPT !.pc = "sendDiscord",
                         !.embed = PageEmbed(previous, env.targetUrl, hash, text),
                         !.newState = [hash |-> hash],
                         !.calls = Append(@, "sendDiscord")]]
  /\ UNCHANGED <<env, stateFile, durable, runs, undelivered, displayed, rendered>>

FetchTextDone(p) ==
  /\ run[p].pc = "fetchText"
  /\ \E s \in ServedBy(env) : TextArrives(p, s)

\* A refused embed after which the new state is saved all the same.
SendFailsKeepsNewState(p) ==
  /\ run[p].pc = "sendDiscord"
  /\ stateFile' = [exists |-> TRUE, raw |-> TextOf[run[p].newState]]
  /\ run' = [run EXCEPT ![p] = Fail(@, 2, Caught(WebhookError))]
  /\ undelivered' = TRUE
  /\ UNCHANGED <<env, source, durable, runs, displayed, rendered>>

\* sendDiscord throws: the webhook answers with an error status.
SendFails(p) ==
  /\ run[p].pc = "sendDiscord"
  /\ run' = [run EXCEPT ![p] = Fail(@, 2, Caught(WebhookError))]
  /\ undelivered' = TRUE
  /\ UNCHANGED <<env, source, stateFile, durable, runs, displayed, rendered>>

saveState(state) == FileWith(state)

CommitOutcomes == {"skipped", "pushed", "failed"}

\* A commit step that reaches origin whatever happens to git.
commitAlwaysReachesOrigin(outcome, file, origin) == file

\* commitAndPushState: skipped without GITHUB_TOKEN or GITHUB_REPOSITORY,
\* else origin receives the working tree's file unless git fails.
commitAndPushState(outcome, file, origin) == IF outcome = "pushed" THEN file ELSE origin

\* Lines 159-166 and 187-193: the webhook accepted the embed; save the new
\* state, then commit and push it.
SendSaved(p) ==
  /\ run[p].pc = "sendDiscord"
  /\ stateFile' = saveState(run[p].newState)
  /\ \E outcome \in CommitOutcomes :
        /\ durable' = commitAndPushState(outcome, stateFile', durable)
        /\ run' = [run EXCEPT ![p] =
              Exit([@ EXCEPT !.delivered = TRUE,
                             !.commit = outcome,
                             !.stderr = IF outcome = "failed"
                                        THEN "Erro ao commitar/push:" ELSE "",
                             !.calls = @ \o <<"saveState", "commitAndPushState">>], 0)]
  /\ undelivered' = FALSE
  /\ UNCHANGED <<env, source, runs, displayed, rendered>>

\* The webhook accepted the embed and fs.writeFileSync throws: the file is
\* untouched, or was truncated when it was opened.
SendSaveFails(p) ==
  /\ run[p].pc = "sendDiscord"
  /\ stateFile' \in {stateFile, Truncated}
  /\ run' = [run EXCEPT ![p] =
        Fail([@ EXCEPT !.delivered = TRUE, !.calls = Append(@, "saveState")],
             2, Caught(WriteError))]
  /\ undelivered' = FALSE
  /\ UNCHANGED <<env, source, durable, runs, displayed, rendered>>

Step(p) ==
  \/ Start(p)
  \/ FetchFails(p)
  \/ FetchJsonDone(p)
  \/ FetchTextDone(p)
  \/ SendFails(p)
  \/ SendSaved(p)
  \/ SendSaveFails(p)

Next == Step(Main)

Spec == Init /\ [][Next]_vars

\* ---------------------------------------------------------------------
\* A stable deployment: the configuration and what the URL serves never
\* change, runs are scheduled for ever, and fetches, deliveries and saves
\* succeed again and again.

\* Longest collection already stored when the deployment starts.
MaxStored == 1

Deployable == {e \in Envs : e.webhook # Unset /\ (e.dataApiUrl # Unset \/ e.targetUrl # Unset)}

StoredBefore ==
  {NoFile} \cup {FileWith(NewState(Current(a))) : a \in SeqsUpTo(Items, MaxStored)}
           \cup {FileWith([hash |-> Sha256(t)]) : t \in Texts}

LiveInit ==
  /\ env \in Deployable
  /\ source \in ServedBy(env)
  /\ stateFile \in StoredBefore
  /\ durable = stateFile
  /\ runs = 0
  /\ run = [p \in Procs |-> Idle]
  /\ undelivered = FALSE
  /\ displayed = <<>>
  /\ rendered = ""

Restart(p) ==
  /\ \A q \in Procs : ~Running(q)
  /\ Launch(p, env)
  /\ UNCHANGED runs

FetchJsonStable(p) == JsonArrives(p, source)

FetchTextStable(p) == TextArrives(p, source)

LiveNext ==
  \/ Restart(Main)
  \/ FetchFails(Main)
  \/ FetchJsonStable(Main)
  \/ FetchTextStable(Main)
  \/ SendFails(Main)
  \/ SendSaved(Main)
  \/ SendSaveFails(Main)

LiveSpec ==
  /\ LiveInit
  /\ [][LiveNext]_vars
  /\ WF_vars(Restart(Main))
  /\ SF_vars(FetchJsonStable(Main))
  /\ SF_vars(FetchTextStable(Main))
  /\ SF_vars(SendSaved(Main))

\* ---------------------------------------------------------------------
\* Vocabulary of the properties.

Called(p, f) == \E i \in 1..Len(run[p].calls) : run[p].calls[i] = f

IndexOf(p, f) == CHOOSE i \in 1..Len(run[p].calls) : run[p].calls[i] = f

Exited(p) == run[p].pc = "exited"

\* The run of p has a current collection: the JSON arrived and is an array.
HasCollection(p) == ~IsNull(run[p].json) /\ "arr" \in DOMAIN run[p].json

\* The run of p has the page text and its digest.
HasDigest(p) == run[p].hash # ""

Keys(entries) == {entries[i].key : i \in 1..Len(entries)}

\* The collection p loaded as previous, if it loaded one.
LoadedPets(p) ==
  IF ~IsNull(run[p].previous) /\ "pets" \in DOMAIN run[p].previous
  THEN run[p].previous.pets ELSE <<>>

LoadedCollection(p) == ~IsNull(run[p].previous) /\ "pets" \in DOMAIN run[p].previous

LoadedDigest(p) == ~IsNull(run[p].previous) /\ "hash" \in DOMAIN run[p].previous

DeliveryFailed(p) == Exited(p) /\ Called(p, "sendDiscord") /\ ~run[p].delivered

\* ---------------------------------------------------------------------
\* C1: in every run, in both modes, saveState is called only after the
\* sendDiscord of that run has succeeded, and commitAndPushState only
\* after saveState; a run whose delivery failed has called neither and
\* leaves the state file as it loaded it.
C1_SaveOnlyAfterDelivery ==
  \A p \in Procs :
    /\ Called(p, "saveState") =>
          /\ run[p].delivered
          /\ Called(p, "sendDiscord")
          /\ \A i \in 1..Len(run[p].calls) :
                run[p].calls[i] = "saveState" => IndexOf(p, "sendDiscord") < i
    /\ Called(p, "commitAndPushState") => Called(p, "saveState")
    /\ DeliveryFailed(p) =>
          /\ ~Called(p, "saveState")
          /\ ~Called(p, "commitAndPushState")
          /\ stateFile = run[p].loaded

\* A run in each mode whose delivery failed over a stored state, and runs
\* that saved.
C1_Witness ==
  /\ DeliveryFailed(Main)
  /\ run[Main].loaded.exists
  /\ run[Main].mode = "opaque"

\* What a run stores for the data the URL serves.
Observation(s) ==
  IF "text" \in DOMAIN s THEN [hash |-> Sha256(s.text)]
  ELSE NewState(Current(s.json.arr))

C2_Redetects ==
  \A p \in Procs :
    (undelivered /\ (HasCollection(p) \/ HasDigest(p)))
    => /\ Called(p, "sendDiscord")
       /\ run[p].embed # NoEmbed
       /\ run[p].newState = Observation(source)

C2_Settled ==
  \E p \in Procs :
    /\ Exited(p)
    /\ run[p].delivered
    /\ ~undelivered
    /\ loadState(stateFile) = Observation(source)

\* C2: at-least-once delivery in a stable deployment: after a run whose
\* delivery failed, every run that fetches the data detects the change
\* again and posts it again, and eventually an embed for it is delivered
\* and the stored state is the one of the data served.
C2_AtLeastOnce ==
  /\ []C2_Redetects
  /\ \A p \in Procs : DeliveryFailed(p) ~> C2_Settled

\* A later run posting again the update whose delivery failed.
C2_Witness ==
  /\ undelivered
  /\ run[Main].pc = "sendDiscord"
  /\ LoadedCollection(Main)
  /\ Len(run[Main].added) > 0

\* C3: an Unchanged run is a no-op: with a previous state loaded and an
\* empty diff (structured) or an equal digest (opaque), the run posts no
\* embed, calls neither saveState nor commitAndPushState, ends normally
\* and leaves the state file as loaded.
C3_UnchangedIsNoOp ==
  \A p \in Procs :
    (\/ /\ HasCollection(p)
        /\ ~IsNull(run[p].previous)
        /\ Len(run[p].added) = 0 /\ Len(run[p].removed) = 0
     \/ /\ HasDigest(p)
        /\ LoadedDigest(p)
        /\ run[p].previous.hash = run[p].hash)
    => /\ Exited(p) /\ run[p].exit = 0
       /\ ~Called(p, "sendDiscord")
       /\ ~Called(p, "saveState")
       /\ ~Called(p, "commitAndPushState")
       /\ run[p].embed = NoEmbed
       /\ ~run[p].delivered
       /\ stateFile = run[p].loaded

C3_Witness ==
  /\ HasCollection(Main)
  /\ LoadedCollection(Main)
  /\ Len(run[Main].current) = 2
  /\ Len(run[Main].added) = 0 /\ Len(run[Main].removed) = 0
  /\ Exited(Main)

\* C4 (as claimed): a run that loads the state saved from the array X and
\* fetches X again finds nothing added and nothing removed and posts
\* nothing.
C4_Idempotent ==
  \A p \in Procs :
    (HasCollection(p) /\ run[p].loaded = FileWith(NewState(Current(run[p].json.arr))))
    => /\ Len(run[p].added) = 0
       /\ Len(run[p].removed) = 0
       /\ ~Called(p, "sendDiscord")

\* The objects of the current entries whose key no loaded entry has, and
\* the payloads of the loaded entries whose key no current entry has.
ExpectedAdded(p) ==
  LET keep(c) == c.key \notin Keys(LoadedPets(p))
      kept == SelectSeq(run[p].current, keep)
  IN [i \in 1..Len(kept) |-> kept[i].object]

ExpectedRemoved(p) ==
  LET keep(e) == e.key \notin Keys(run[p].current)
      kept == SelectSeq(LoadedPets(p), keep)
  IN [i \in 1..Len(kept) |-> PrevValue(kept[i])]

\* C5 (as claimed): added is exactly the current entities whose key is not
\* a key of the previous snapshot, removed exactly the previous entities
\* whose key is not a key of the current one, so a key of both snapshots
\* is in neither list.
C5_DiffByKey ==
  \A p \in Procs :
    (HasCollection(p) /\ LoadedCollection(p))
    => /\ run[p].added = ExpectedAdded(p)
       /\ run[p].removed = ExpectedRemoved(p)

\* C6 (as claimed): when the loaded and the current collection have the
\* same keys the run is Unchanged whatever the payloads: nothing is
\* posted and the state file keeps the loaded payloads.
C6_PresenceOnly ==
  \A p \in Procs :
    (HasCollection(p) /\ LoadedCollection(p)
       /\ Keys(LoadedPets(p)) = Keys(run[p].current))
    => /\ Exited(p) /\ run[p].exit = 0
       /\ ~Called(p, "sendDiscord")
       /\ stateFile = run[p].loaded

FirstIndex(arr, k) == CHOOSE i \in 1..Len(arr) :
  /\ normalize(arr[i]).key = k
  /\ \A j \in 1..(i - 1) : normalize(arr[j]).key # k

\* C8: the collection built from a fetched array holds each key once,
\* with the first record of that key in input order, and so does every
\* collection in the state file and at origin.
C8_KeysUnique ==
  /\ \A p \in Procs : HasCollection(p) =>
        LET cur == run[p].current
            arr == run[p].json.arr
        IN /\ \A i, j \in 1..Len(cur) : cur[i].key = cur[j].key => i = j
           /\ Keys(cur) = {normalize(arr[i]).key : i \in 1..Len(arr)}
           /\ \A i \in 1..Len(cur) : cur[i].object = arr[FirstIndex(arr, cur[i].key)]
  /\ \A file \in {stateFile, durable} :
        LET st == loadState(file)
        IN (~IsNull(st) /\ "pets" \in DOMAIN st) =>
             \A i, j \in 1..Len(st.pets) : st.pets[i].key = st.pets[j].key => i = j

\* Two records of one key were fetched and the first was saved.
C8_Witness ==
  /\ HasCollection(Main)
  /\ run[Main].json.arr = <<PetRex, PetFofo>>
  /\ stateFile = FileWith([pets |-> <<[key |-> "pet1", object |-> PetRex]>>])

\* C9 (as claimed): a run that loaded a state of the other kind than its
\* mode ends with an error, posts nothing and leaves the state file.
C9_MixedKindsRejected ==
  \A p \in Procs :
    (\/ HasCollection(p) /\ LoadedDigest(p)
     \/ HasDigest(p) /\ LoadedCollection(p))
    => /\ Exited(p) /\ run[p].exit # 0
       /\ ~Called(p, "sendDiscord")
       /\ stateFile = run[p].loaded

\* The fetch of p failed; the JSON p fetched is not an array.
FetchFailed(p) ==
  /\ Exited(p)
  /\ Len(run[p].calls) = 2
  /\ IsNull(run[p].json) /\ ~HasDigest(p)

Malformed(p) == ~IsNull(run[p].json) /\ "arr" \notin DOMAIN run[p].json

\* C10: a failed fetch and a JSON body that is not an array end the run
\* with an error and change nothing: no embed is posted, saveState and
\* commitAndPushState are not called, the state file is as loaded.
C10_FetchErrorsMutateNothing ==
  \A p \in Procs :
    (FetchFailed(p) \/ Malformed(p))
    => /\ Exited(p) /\ run[p].exit = 2
       /\ run[p].calls \in {<<"loadState", "fetchJson">>, <<"loadState", "fetchText">>}
       /\ run[p].embed = NoEmbed
       /\ ~run[p].delivered
       /\ stateFile = run[p].loaded
       /\ loadState(stateFile) = run[p].previous

\* A malformed body over a stored collection.
C10_Witness ==
  /\ Malformed(Main)
  /\ LoadedCollection(Main)
  /\ Len(LoadedPets(Main)) = 2

\* ---------------------------------------------------------------------
\* Two consecutive runs of a workflow: each job starts from a checkout
\* of origin, and the configuration and the data served stay the same.

Next2 == 2

\* actions/checkout: the working tree's state file is the one at origin.
Checkout ==
  /\ \A q \in Procs : ~Running(q)
  /\ Exited(Main)
  /\ run[Next2].pc = "idle"
  /\ stateFile # durable
  /\ stateFile' = durable
  /\ UNCHANGED <<env, source, durable, runs, run, undelivered, displayed, rendered>>

FirstRun ==
  /\ run[Main].pc = "idle"
  /\ runs' = runs + 1
  /\ Launch(Main, env)

NextRun ==
  /\ Exited(Main)
  /\ run[Next2].pc = "idle"
  /\ stateFile = durable
  /\ runs' = runs + 1
  /\ Launch(Next2, env)

WorkflowNext ==
  \/ FirstRun
  \/ Checkout
  \/ NextRun
  \/ \E p \in Procs :
       \/ FetchFails(p)
       \/ FetchJsonStable(p)
       \/ FetchTextStable(p)
       \/ SendFails(p)
       \/ SendSaved(p)
       \/ SendSaveFails(p)

WorkflowSpec == LiveInit /\ [][WorkflowNext]_vars

\* The run of p delivered and saved, and its commit was skipped or failed.
Unpushed(p) == Exited(p) /\ run[p].commit \in {"skipped", "failed"}

C11_NonFatal ==
  \A p \in Procs :
    (run[p].pc = "sendDiscord" /\ run'[p].commit \in {"skipped", "failed"})
    => /\ run'[p].pc = "exited" /\ run'[p].exit = 0
       /\ run'[p].delivered
       /\ stateFile' = FileWith(run[p].newState)
       /\ loadState(stateFile') = run[p].newState
       /\ durable' = durable

C11_Reobserves ==
  (Unpushed(Main) /\ (HasCollection(Next2) \/ HasDigest(Next2)))
  => /\ run[Next2].loaded = run[Main].loaded
     /\ run[Next2].previous = run[Main].previous
     /\ run[Next2].added = run[Main].added
     /\ run[Next2].removed = run[Main].removed
     /\ run[Next2].embed = run[Main].embed
     /\ run[Next2].embed # NoEmbed
     /\ Called(Next2, "sendDiscord")

\* C11: the commit step is not fatal: a Changed run whose commit is
\* skipped (no credentials) or fails still ends with exit code 0, the
\* embed delivered and the new state in the state file, while origin
\* keeps the old state file; the next run, started from a checkout of
\* origin, finds the same diff and posts the same embed again.
C11_CommitNonFatal == [][C11_NonFatal]_vars /\ []C11_Reobserves

\* The next run posting again after a failed push over a stored state.
C11_Witness ==
  /\ Unpushed(Main)
  /\ run[Main].commit = "failed"
  /\ run[Main].loaded.exists
  /\ run[Next2].delivered
  /\ Len(run[Next2].added) > 0

\* The state file could not be written after the embed was delivered.
SaveFailed(p) ==
  /\ Exited(p) /\ run[p].delivered
  /\ Called(p, "saveState") /\ ~Called(p, "commitAndPushState")

\* What a run surfaces when it ends: its exit code and what it logged as
\* an error.
Outcome(p) == <<run[p].exit, run[p].stderr>>

FailureClass(p) ==
  IF DeliveryFailed(p) THEN "delivery"
  ELSE IF SaveFailed(p) THEN "save"
  ELSE IF FetchFailed(p) \/ Malformed(p) THEN "input"
  ELSE "none"

\* C12 (as claimed): a run whose delivery or whose save failed does not
\* fail as a whole (its exit code is 0), and runs that ended in a
\* delivery failure, in a save failure and in a fetch or malformed-input
\* failure differ in what they surface.
C12_ErrorsDistinct ==
  /\ \A p \in Procs : FailureClass(p) \in {"delivery", "save"} => run[p].exit = 0
  /\ \A p, q \in Procs :
       (FailureClass(p) # "none" /\ FailureClass(q) # "none"
          /\ FailureClass(p) # FailureClass(q))
       => Outcome(p) # Outcome(q)

\* The first 800 characters of a text.
First800(text) == IF Len(text) <= 800 THEN text ELSE SubSeq(text, 1, 800)

\* An opaque run over a stored digest is Unchanged when the digest of the
\* page equals the stored one; otherwise it posts an embed with the new
\* digest and the given excerpt, and once it ended normally the state
\* file holds the digest of the page.
DigestDecides(p, excerpt) ==
  (HasDigest(p) /\ LoadedDigest(p))
  => /\ run[p].hash = Sha256(run[p].text)
     /\ run[p].previous.hash = Sha256(run[p].text)
          => /\ Exited(p) /\ run[p].exit = 0
             /\ ~Called(p, "sendDiscord")
             /\ stateFile = run[p].loaded
     /\ run[p].previous.hash # Sha256(run[p].text)
          => /\ Called(p, "sendDiscord")
             /\ run[p].embed.fields[1].value = Sha256(run[p].text)
             /\ run[p].embed.fields[2].value = excerpt
             /\ (Exited(p) /\ run[p].exit = 0)
                  => /\ run[p].delivered
                     /\ loadState(stateFile) = [hash |-> Sha256(run[p].text)]

\* C13 (as claimed): in opaque mode over a stored digest the run is
\* Changed exactly when the digests differ, and the embed of a Changed
\* run carries the new digest and the first 800 characters of the page.
C13_DigestDecides ==
  \A p \in Procs : DigestDecides(p, First800(run[p].text))

\* C13 (amended): as claimed, except that for an empty page the embed
\* carries a dash in place of the excerpt.
C13_DigestDecidesOrDash ==
  \A p \in Procs :
    DigestDecides(p, IF run[p].text = "" THEN "--" ELSE First800(run[p].text))

\* A page longer than 800 characters replaced a stored digest.
C13_Witness ==
  /\ LoadedDigest(Main)
  /\ run[Main].text = LongPage
  /\ Exited(Main) /\ run[Main].delivered /\ run[Main].exit = 0
  /\ Len(run[Main].embed.fields[2].value) = 800

\* The run of p is a structured run that built its embed.
PostedPets(p) == HasCollection(p) /\ Called(p, "sendDiscord")

SectionNames(p) == [i \in 1..Len(run[p].embed.fields) |-> run[p].embed.fields[i].name]

\* C14: the embed of a structured run has the initial-state title exactly
\* when no previous state was loaded and the update title otherwise, and
\* its sections are one per non-empty list among added and removed, in
\* that order, each labelled with the length of the whole list.
C14_EmbedShape ==
  \A p \in Procs :
    PostedPets(p)
    => /\ run[p].embed.title =
            (IF IsNull(run[p].previous) THEN "Estado inicial dos pets"
             ELSE "Atualizacao de pets")
       /\ SectionNames(p) =
            (IF Len(run[p].added) > 0
             THEN <<"Novos (" \o ToString(Len(run[p].added)) \o ")">> ELSE <<>>)
            \o (IF Len(run[p].removed) > 0
                THEN <<"Removidos (" \o ToString(Len(run[p].removed)) \o ")">> ELSE <<>>)

\* An update with more pets added than a section lists, and one removed.
C14_Witness ==
  /\ PostedPets(Main)
  /\ LoadedCollection(Main)
  /\ Len(run[Main].added) > ShortListLimit
  /\ Len(run[Main].removed) = 1
  /\ run[Main].delivered

MaxListed == 11

DisplayStrings == {"Fofo", "{\"id\":[]}"}

RenderInit ==
  /\ env = [webhook |-> Unset, dataApiUrl |-> Unset, targetUrl |-> Unset]
  /\ source = [text |-> EmptyPage]
  /\ stateFile = NoFile
  /\ durable = NoFile
  /\ runs = 0
  /\ run = [p \in Procs |-> Idle]
  /\ undelivered = FALSE
  /\ displayed \in SeqsUpTo(DisplayStrings, MaxListed)
  /\ rendered = ""

\* shortList(items) with the default limit.
Render ==
  /\ rendered = ""
  /\ rendered' = shortList(displayed, ShortListLimit)
  /\ UNCHANGED <<env, source, stateFile, durable, runs, run, undelivered, displayed>>

RenderNext == Render

RenderSpec == RenderInit /\ [][RenderNext]_vars

\* The lines of a text.
SplitLines(s) ==
  LET breaks == {i \in 1..Len(s) : SubSeq(s, i, i) = "\n"}
      nth(k) == IF k = 0 THEN 0
                ELSE IF k > Cardinality(breaks) THEN Len(s) + 1
                ELSE CHOOSE b \in breaks : Cardinality({c \in breaks : c <= b}) = k
  IN [k \in 1..(Cardinality(breaks) + 1) |-> SubSeq(s, nth(k - 1) + 1, nth(k) - 1)]

\* C16: a list of n display strings is rendered as a dash when n = 0,
\* else as one bulleted line for each of its first min(n, 10) entries in
\* their order, followed by one line stating n - 10 further entries
\* exactly when n > 10.
C16_ShortListTruncates ==
  rendered # ""
  => LET n == Len(displayed)
         shown == IF n < 10 THEN n ELSE 10
         lines == SplitLines(rendered)
     IN IF n = 0 THEN rendered = "--"
        ELSE /\ Len(lines) = shown + (IF n > 10 THEN 1 ELSE 0)
             /\ \A i \in 1..shown : lines[i] = "* " \o displayed[i]
             /\ n > 10 => lines[shown + 1] = "...(+" \o ToString(n - 10) \o ")"

\* A rendered list of more than 10 entries.
C16_Witness ==
  /\ rendered # ""
  /\ Len(displayed) > 10
  /\ displayed[1] # displayed[2]

\* ---------------------------------------------------------------------
\* Two runs of the script in one working tree, each started at any time:
\* nothing in the script keeps a run from starting while another is under
\* way.

\* Longest array served while the two runs race.
MaxRaced == 1

RacePets == {PetFofo, PetZero, PetArrId}

RaceServed(e) ==
  IF e.dataApiUrl # Unset
  THEN {[json |-> [arr |-> a]] : a \in SeqsUpTo(RacePets, MaxRaced)}
  ELSE {[text |-> t] : t \in Texts}

RaceInit ==
  /\ env \in {e \in Deployable : e.dataApiUrl = Unset \/ e.targetUrl = Unset}
  /\ source \in RaceServed(env)
  /\ stateFile \in {NoFile} \cup {FileWith(Observation(s)) : s \in RaceServed(env)}
  /\ durable = stateFile
  /\ runs = 0
  /\ run = [p \in Procs |-> Idle]
  /\ undelivered = FALSE
  /\ displayed = <<>>
  /\ rendered = ""

StartAnyTime(p) ==
  /\ run[p].pc = "idle"
  /\ runs' = runs + 1
  /\ Launch(p, env)

RaceFetchJson(p) ==
  /\ run[p].pc = "fetchJson"
  /\ \E s \in RaceServed(env) : JsonArrives(p, s)

RaceFetchText(p) ==
  /\ run[p].pc = "fetchText"
  /\ \E s \in RaceServed(env) : TextArrives(p, s)

RaceNext ==
  \E p \in Procs :
    \/ StartAnyTime(p)
    \/ FetchFails(p)
    \/ RaceFetchJson(p)
    \/ RaceFetchText(p)
    \/ SendFails(p)
    \/ SendSaved(p)
    \/ SendSaveFails(p)

RaceSpec == RaceInit /\ [][RaceNext]_vars

\* The run of p delivered its embed, saved its new state and ended
\* normally.
Saved(p) == Exited(p) /\ run[p].exit = 0 /\ run[p].delivered

NonOverlapping == \A p \in Procs : ~run[p].overlapped

NoFailures == \A p \in Procs : Exited(p) => run[p].exit = 0

\* Two runs loaded the same state file and both delivered the same embed.
DuplicateNotification ==
  \E p, q \in Procs :
    /\ p # q
    /\ run[p].delivered /\ run[q].delivered
    /\ run[p].loaded = run[q].loaded
    /\ run[p].embed = run[q].embed

\* Two runs saved, and the state file holds the state of one that did
\* not observe the data served last, which the other did.
StaleFinalSnapshot ==
  \E p, q \in Procs :
    /\ p # q
    /\ Saved(p) /\ Saved(q)
    /\ stateFile = FileWith(run[p].newState)
    /\ run[q].newState = Observation(source)
    /\ run[p].newState # Observation(source)

\* Two overlapping runs loaded the same state file and both posted, and
\* the one that observed the older data saved last.
RaceLost ==
  /\ \E p \in Procs : run[p].overlapped
  /\ NoFailures
  /\ \E p, q \in Procs : p # q /\ run[p].loaded = run[q].loaded
  /\ StaleFinalSnapshot

\* Two overlapping runs posted the same embed.
RaceDuplicates ==
  /\ \E p \in Procs : run[p].overlapped
  /\ NoFailures
  /\ DuplicateNotification

\* Each save puts the new state of the saving run in the state file,
\* whatever the file held.
LastWriteWins ==
  \A p \in Procs :
    (run[p].pc = "sendDiscord" /\ Saved(p)') => stateFile' = FileWith(run[p].newState)

\* C17 (as claimed): the state file is the one of the run that saved
\* last, and runs that do not overlap and do not fail neither post the
\* same embed twice for one loaded state nor leave a stale state file.
C17_OnlyOverlapRaces ==
  /\ [][LastWriteWins]_vars
  /\ []((NonOverlapping /\ NoFailures) => (~DuplicateNotification /\ ~StaleFinalSnapshot))

\* The fetch, post and save calls of the script.
Effects == {"fetchJson", "fetchText", "sendDiscord", "saveState", "commitAndPushState"}

\* C18: a started run uses structured mode, and never fetches the page,
\* whenever the webhook and DATA_API_URL are set, also with TARGET_URL
\* set; it uses opaque mode only with DATA_API_URL empty and TARGET_URL
\* set; with neither URL set, or without the webhook, it ends with an
\* error and has fetched, posted and saved nothing.
C18_ModeSelection ==
  \A p \in Procs :
    run[p].pc # "idle"
    => /\ (env.webhook # Unset /\ env.dataApiUrl # Unset)
            => /\ run[p].mode = "structured"
               /\ Called(p, "fetchJson") /\ ~Called(p, "fetchText")
       /\ (env.webhook # Unset /\ env.dataApiUrl = Unset /\ env.targetUrl # Unset)
            => /\ run[p].mode = "opaque"
               /\ Called(p, "fetchText") /\ ~Called(p, "fetchJson")
       /\ run[p].mode = "opaque" => (env.dataApiUrl = Unset /\ env.targetUrl # Unset)
       /\ (env.webhook = Unset \/ (env.dataApiUrl = Unset /\ env.targetUrl = Unset))
            => /\ Exited(p) /\ run[p].exit # 0
               /\ run[p].mode = ""
               /\ \A f \in Effects : ~Called(p, f)
               /\ run[p].embed = NoEmbed /\ ~run[p].delivered
               /\ IsNull(run[p].newState)

\* A structured run that delivered with TARGET_URL set as well.
C18_Witness ==
  /\ env.dataApiUrl # Unset /\ env.targetUrl # Unset
  /\ run[Main].delivered
  /\ run[Main].mode = "structured"
  /\ runs = 2

\* C19 (as claimed): for every entry of the state file, the key the
\* script derives for it when it loads the file as previous is the key
\* normalize gave its object when it was saved.
C19_KeyRoundTrip ==
  LET st == loadState(stateFile)
  IN (~IsNull(st) /\ "pets" \in DOMAIN st)
     => \A i \in 1..Len(st.pets) :
          /\ st.pets[i].key = normalize(st.pets[i].object).key
          /\ PrevKey(st.pets[i]) = normalize(st.pets[i].object).key

UnstructuredNote == "\nConteudo alterado (diferenca nao estruturada)."

\* C20: the embed of a structured run has no section, and the note of an
\* unstructured difference, only when no previous state was loaded and
\* the fetched array is empty; with a previous state loaded every embed
\* has a section for a non-empty added or removed list.
C20_NoSectionOnlyInitialEmpty ==
  \A p \in Procs :
    PostedPets(p)
    => /\ (run[p].embed.fields = <<>>
            \/ run[p].embed.description = env.dataApiUrl \o UnstructuredNote)
          => /\ IsNull(run[p].previous)
             /\ run[p].json.arr = <<>>
             /\ run[p].embed.fields = <<>>
             /\ run[p].embed.description = env.dataApiUrl \o UnstructuredNote
       /\ ~IsNull(run[p].previous)
          => /\ Len(run[p].embed.fields) >= 1
             /\ Len(run[p].added) > 0 \/ Len(run[p].removed) > 0
             /\ run[p].embed.description = env.dataApiUrl

\* The first run, over an empty array, delivered the note.
C20_Witness ==
  /\ PostedPets(Main)
  /\ run[Main].loaded = NoFile
  /\ run[Main].embed.fields = <<>>
  /\ run[Main].embed.description = env.dataApiUrl \o UnstructuredNote
  /\ run[Main].delivered
  /\ durable = stateFile
  /\ runs = 1
====
